---- MODULE Spec2Model ----
(***************************************************************************)
(* Model of rabbitmq_exporter (src/main.go): the startup gate that loads   *)
(* the configuration, the supervisor that launches one poll loop per       *)
(* configured node, the poll loops (getOverview, getNumberOfMessages,      *)
(* interval sleep, panic recovery with the failure cooldown) and the       *)
(* Prometheus metric vectors they write.                                   *)
(***************************************************************************)
EXTENDS Integers, Sequences, FiniteSets, TLC

\* ------------------------------------------------------------------ bounds
\* Broker values range over 1..MaxVal (scaled per field, see FieldValue).
MaxVal == 2
\* Longest /api/queues array the brokers return.
MaxQueues == 2
\* The count of consecutive failed cycles saturates here.
MaxFails == 2

\* ------------------------------------------------------- program constants
\* requestData's recover(): dt := 10 * time.Second
FailureCooldown == 10
\* requestData: dt = 30 * time.Second when the interval does not parse
DefaultInterval == 30
\* loadConfig's recover(): dt := 10 * time.Second
LoadCooldown == 10

\* ------------------------------------------------------------ JSON values
\* A decoded JSON value as encoding/json hands it to the program: a float64
\* ("num"), a string ("str") or something else ("other": bool, null, array).
Num(n) == [t |-> "num", n |-> n, s |-> ""]
Str(s) == [t |-> "str", n |-> 0, s |-> s]
Other == [t |-> "other", n |-> 0, s |-> ""]
\* A key that is not in the map: indexing yields the nil interface.
Absent == [t |-> "absent", n |-> 0, s |-> ""]

IsFloat64(j) == j.t = "num"
IsString(j) == j.t = "str"

IsMap(g) == g.t = "obj"

\* ------------------------------------------------------------ metric names
\* The metric vectors of the var block, by their Go names.
ObjectTotalsFields == <<"channels", "connections", "consumers", "queues", "exchanges">>
QueueTotalsFields == <<"messages", "messages_ready", "messages_unacknowledged">>
MessageStatsFields ==
    <<"redeliver", "confirm", "deliver", "publish", "ack", "deliver_get", "deliver_no_ack">>

Range(s) == {s[k] : k \in DOMAIN s}

Groups == {"object_totals", "queue_totals", "message_stats"}

\* The keys a group object may carry: the target fields and "details", which
\* stands for the non-target keys of a real response (rate details objects).
AllKeys ==
    Range(ObjectTotalsFields) \cup Range(QueueTotalsFields)
        \cup Range(MessageStatsFields) \cup {"details"}

\* A nested JSON object: every key of AllKeys to its value, Absent when the
\* object does not carry the key.
Obj(f) == [t |-> "obj", f |-> f]
NoKeys == [k \in AllKeys |-> Absent]
\* A group key that is missing from the response (nil interface).
NoGroup == [t |-> "absent", f |-> NoKeys]
\* A group key whose value is not a JSON object.
ScalarGroup == [t |-> "scalar", f |-> NoKeys]

GroupFields(g) ==
    CASE g = "object_totals" -> ObjectTotalsFields
      [] g = "queue_totals" -> QueueTotalsFields
      [] g = "message_stats" -> MessageStatsFields

\* The fifteen Set calls of getOverview, in program order:
\* <<metric vector, group, field>>.
OverviewSets ==
    << <<"channelsTotal", "object_totals", "channels">>,
       <<"connectionsTotal", "object_totals", "connections">>,
       <<"consumersTotal", "object_totals", "consumers">>,
       <<"queuesTotal", "object_totals", "queues">>,
       <<"exchangesTotal", "object_totals", "exchanges">>,
       <<"messagesCounter", "queue_totals", "messages">>,
       <<"messagesReadyCounter", "queue_totals", "messages_ready">>,
       <<"messagesUnacknowledgedCounter", "queue_totals", "messages_unacknowledged">>,
       <<"messageStatsRedeliverCounter", "message_stats", "redeliver">>,
       <<"messageStatsConfirmCounter", "message_stats", "confirm">>,
       <<"messageStatsDeliverCounter", "message_stats", "deliver">>,
       <<"messageStatsPublishCounter", "message_stats", "publish">>,
       <<"messageStatsAckCounter", "message_stats", "ack">>,
       <<"messageStatsDeliverGetCounter", "message_stats", "deliver_get">>,
       <<"messageStatsDeliverNoAckCounter", "message_stats", "deliver_no_ack">> >>

OverviewMetrics == {OverviewSets[k][1] : k \in DOMAIN OverviewSets}

\* Every metric vector declared in the var block.
Metrics == OverviewMetrics \cup {"messagesTotal"}

\* The Name of each vector's options, as the exposition prints it.
MetricName(m) ==
    CASE m = "connectionsTotal" -> "connections_total"
      [] m = "channelsTotal" -> "channels_total"
      [] m = "queuesTotal" -> "queues_total"
      [] m = "consumersTotal" -> "consumers_total"
      [] m = "exchangesTotal" -> "exchanges_total"
      [] m = "messagesTotal" -> "messages_total"
      [] m = "messagesCounter" -> "messages"
      [] m = "messagesReadyCounter" -> "messages_ready"
      [] m = "messagesUnacknowledgedCounter" -> "messages_unacknowledged"
      [] m = "messageStatsPublishCounter" -> "messages_published"
      [] m = "messageStatsAckCounter" -> "messages_acked"
      [] m = "messageStatsDeliverCounter" -> "messages_delivered"
      [] m = "messageStatsConfirmCounter" -> "messages_confirmed"
      [] m = "messageStatsRedeliverCounter" -> "messages_redelivered"
      [] m = "messageStatsDeliverGetCounter" -> "messages_delivered_get"
      [] m = "messageStatsDeliverNoAckCounter" -> "messages_delivered_no_ack"

\* The vectors init() hands to prometheus.MustRegister; the /metrics handler
\* gathers these and no others.
Registered ==
    {"channelsTotal", "connectionsTotal", "queuesTotal", "exchangesTotal",
     "consumersTotal", "messagesTotal", "messagesCounter", "messagesReadyCounter",
     "messageStatsAckCounter", "messageStatsDeliverCounter",
     "messageStatsRedeliverCounter", "messageStatsConfirmCounter",
     "messageStatsPublishCounter", "messageStatsDeliverNoAckCounter",
     "messageStatsDeliverGetCounter"}

\* Gauge vectors (NewGaugeVec) and counter vectors (NewCounterVec).
GaugeMetrics ==
    {"connectionsTotal", "channelsTotal", "queuesTotal", "consumersTotal",
     "exchangesTotal", "messagesTotal"}
CounterMetrics == Metrics \ GaugeMetrics

\* ------------------------------------------------------- broker responses
\* What decodeObj returns: the decoded object, or the nil map when Decode
\* failed (the error is only logged).  Indexing the nil map yields the nil
\* interface for every key.
Doc(node, ot, qt, ms) ==
    [t |-> "obj", node |-> node, object_totals |-> ot, queue_totals |-> qt,
     message_stats |-> ms]
NilMap ==
    [t |-> "nil", node |-> Absent, object_totals |-> NoGroup,
     queue_totals |-> NoGroup, message_stats |-> NoGroup]

\* Position of a target field among the fifteen Set calls.
FieldIndex(g, k) ==
    CHOOSE i \in DOMAIN OverviewSets : OverviewSets[i][2] = g /\ OverviewSets[i][3] = k

\* The number a broker in state v reports for field k of group g: distinct
\* for distinct fields and distinct v, and never zero.
FieldValue(g, k, v) == 100 * v + FieldIndex(g, k)

FullGroup(g, v) ==
    Obj([k \in AllKeys |->
            IF k \in Range(GroupFields(g)) THEN Num(FieldValue(g, k, v))
            ELSE IF k = "details" /\ g # "object_totals" THEN Other
            ELSE Absent])

\* The node names the brokers report.
NodeNames == {"rabbit@a", "rabbit@b"}

\* The complete overview answers, by node name and broker state.
FullDocs ==
    [l \in NodeNames, v \in 1..MaxVal |->
        Doc(Str(l), FullGroup("object_totals", v), FullGroup("queue_totals", v),
            FullGroup("message_stats", v))]

\* A complete overview answer of broker node l in state v.
FullDoc(l, v) == FullDocs[l, v]

\* Edits that open a gap in a response.
WithKey(d, g, k, j) == [d EXCEPT ![g].f[k] = j]
WithGroup(d, g, grp) == [d EXCEPT ![g] = grp]
WithNode(d, j) == [d EXCEPT !.node = j]

\* What the HTTP exchange of sendApiRequest produced: "error" when client.Do
\* failed, "garbage" when the body does not decode to the target type,
\* "json" when it does.
OvError == [kind |-> "error", val |-> NilMap]
OvGarbage == [kind |-> "garbage", val |-> NilMap]
OvJson(d) == [kind |-> "json", val |-> d]

\* An element of the queues array: a JSON object with its node and messages
\* keys, or an element that is not an object (decoded as a nil map).
Elem(node, messages) == [t |-> "obj", node |-> node, messages |-> messages]
NilElem == [t |-> "nil", node |-> Absent, messages |-> Absent]

QError == [kind |-> "error", val |-> <<>>]
QGarbage == [kind |-> "garbage", val |-> <<>>]
QJson(a) == [kind |-> "json", val |-> a]

\* decodeObj: the decoded map; the zero value (nil map) when Decode fails.
decodeObj(body) == IF body.kind = "json" THEN body.val ELSE NilMap

\* decodeObjArray: the decoded slice; the nil slice when Decode fails.
decodeObjArray(body) == IF body.kind = "json" THEN body.val ELSE <<>>

\* ------------------------------------------------------ the metric vectors
\* A vector child that WithLabelValues has not created yet.
NoValue == -1

\* The bug of accumulating (Add) where the program overwrites.
SetAdds(reg, m, l, v) ==
    [reg EXCEPT ![<<m, l>>] = IF @ = NoValue THEN v ELSE @ + v]

\* vec.WithLabelValues(l).Set(v): the child of (m, l) holds v.
Set(reg, m, l, v) == [reg EXCEPT ![<<m, l>>] = v]

\* What the /metrics handler lists: the children of the registered vectors.
Exposition(reg) ==
    {<<key, reg[key]>> : key \in {q \in DOMAIN reg : q[1] \in Registered /\ reg[q] # NoValue}}

\* ------------------------------------------------------------- getOverview
\* The float64 map built from one group: the keys whose value is a float64.
FloatMap(grp) == [k \in {q \in AllKeys : IsFloat64(grp.f[q])} |-> grp.f[k].n]

\* m[k] of a Go map: the zero value when the key is missing.
Lookup(m, k) == IF k \in DOMAIN m THEN m[k] ELSE 0

\* The unchecked assertions of lines 229-247: each group must be a JSON
\* object, and every value inside object_totals a float64.
OverviewPanics(response) ==
    \/ ~IsMap(response.object_totals)
    \/ \E k \in AllKeys : response.object_totals.f[k].t \notin {"absent", "num"}
    \/ ~IsMap(response.queue_totals)
    \/ ~IsMap(response.message_stats)

\* nodename, _ := response["node"].(string)
OverviewNodeName(response) == IF IsString(response.node) THEN response.node.s ELSE ""

\* The bug of passing each Set call the field of the call after it.
OverviewValueOfNext(response, k) ==
    Lookup(FloatMap(response[OverviewSets[(k % Len(OverviewSets)) + 1][2]]),
           OverviewSets[(k % Len(OverviewSets)) + 1][3])

\* The argument of the k-th Set call.
OverviewValue(response, k) ==
    Lookup(FloatMap(response[OverviewSets[k][2]]), OverviewSets[k][3])

\* The first n Set calls of lines 251-265.
RECURSIVE OverviewSetCalls(_, _, _)
OverviewSetCalls(reg, response, n) ==
    IF n = 0 THEN reg
    ELSE Set(OverviewSetCalls(reg, response, n - 1), OverviewSets[n][1],
             OverviewNodeName(response), OverviewValue(response, n))

MapOverview(reg, response) == OverviewSetCalls(reg, response, Len(OverviewSets))

\* ----------------------------------------------------- getNumberOfMessages
\* The value recover() receives: "index" for response[0] on an empty slice,
\* "conversion" for a failed type assertion.
QueuesPanic(response) ==
    IF Len(response) = 0 THEN "index"
    ELSE IF ~IsString(response[1].node) THEN "conversion"
    ELSE IF \E k \in DOMAIN response : ~IsFloat64(response[k].messages) THEN "conversion"
    ELSE "none"

RECURSIVE TotalMessages(_)
TotalMessages(response) ==
    IF response = <<>> THEN 0
    ELSE response[1].messages.n + TotalMessages(Tail(response))

\* The bug of labelling the total with the node of the last element.
MapQueuesLabelOfLast(reg, response) ==
    Set(reg, "messagesTotal", response[Len(response)].node.s, TotalMessages(response))

\* Line 271 and 277: one Set, labelled with the node of the first element.
MapQueues(reg, response) ==
    Set(reg, "messagesTotal", response[1].node.s, TotalMessages(response))

\* ------------------------------------------------------ time.ParseDuration
\* A Go string is a sequence of one-character strings here.  Durations are
\* in whole seconds; the units below a second are outside the model.
Digits == {"0", "1", "2", "3", "4", "5", "6", "7", "8", "9"}

DigitValue(c) ==
    CASE c = "0" -> 0 [] c = "1" -> 1 [] c = "2" -> 2 [] c = "3" -> 3 [] c = "4" -> 4
      [] c = "5" -> 5 [] c = "6" -> 6 [] c = "7" -> 7 [] c = "8" -> 8 [] c = "9" -> 9

UnitSeconds(u) ==
    CASE u = <<"s">> -> 1 [] u = <<"m">> -> 60 [] u = <<"h">> -> 3600 [] OTHER -> 0

\* The longest prefix of s made of digits (isDigit = TRUE) or of non-digits.
RECURSIVE Run(_, _)
Run(s, isDigit) ==
    IF s = <<>> \/ ((Head(s) \in Digits) # isDigit) THEN <<>>
    ELSE <<Head(s)>> \o Run(Tail(s), isDigit)

RECURSIVE DecimalValue(_, _)
DecimalValue(s, acc) ==
    IF s = <<>> THEN acc ELSE DecimalValue(Tail(s), 10 * acc + DigitValue(Head(s)))

\* The loop of ParseDuration: one or more <digits><unit> groups.
RECURSIVE ParseGroups(_, _)
ParseGroups(s, acc) ==
    IF s = <<>> THEN [ok |-> TRUE, d |-> acc]
    ELSE LET num == Run(s, TRUE)
             rest == SubSeq(s, Len(num) + 1, Len(s))
             unit == Run(rest, FALSE)
         IN  IF num = <<>> \/ unit = <<>> \/ UnitSeconds(unit) = 0
             THEN [ok |-> FALSE, d |-> 0]
             ELSE ParseGroups(SubSeq(rest, Len(unit) + 1, Len(rest)),
                              acc + DecimalValue(num, 0) * UnitSeconds(unit))

\* time.ParseDuration: "" is an error, "0" is zero, otherwise the groups.
ParseDuration(s) ==
    IF s = <<>> THEN [ok |-> FALSE, d |-> 0]
    ELSE IF s = <<"0">> THEN [ok |-> TRUE, d |-> 0]
    ELSE ParseGroups(s, 0)

\* The bug of sleeping the zero dt that ParseDuration returns with its error.
SleepIntervalNoFallback(interval) == ParseDuration(interval).d

\* Lines 319-323 of requestData: the sleep after a successful cycle.
SleepInterval(interval) ==
    IF ParseDuration(interval).ok THEN ParseDuration(interval).d ELSE DefaultInterval

\* ------------------------------------------------------------ configuration
Node(name, url, interval) == [Name |-> name, Url |-> url, Interval |-> interval]

\* Config.Nodes is a pointer: nil when the file has no "nodes" key.
NilNodes == [nil |-> TRUE, list |-> <<>>]
Nodes(list) == [nil |-> FALSE, list |-> list]

Config(nodes, interval) == [Nodes |-> nodes, Interval |-> interval]

\* The zero Config of main (var config Config).
ZeroConfig == Config(NilNodes, <<>>)

UrlA == "http://a:15672"
UrlB == "http://b:15672"
UrlC == "http://c:15672"

\* The configurations the file may hold when it parses.
ConfigFiles ==
    { Config(Nodes(<< Node("solo", UrlA, <<>>) >>), <<"a", "b", "c">>),
      Config(Nodes(<< Node("first", UrlB, <<"1", "m">>), Node("second", UrlC, <<>>) >>),
             <<"5", "s">>),
      Config(Nodes(<< Node("plain", UrlB, <<"9", "0">>) >>), <<"1", "m", "5", "s">>),
      Config(Nodes(<<>>), <<"5", "s">>),
      Config(NilNodes, <<"5", "s">>) }

\* ----------------------------------------------------------------- brokers
\* The node name the broker behind a URL reports.  UrlB and UrlC are two
\* addresses of the same broker node.
NodeNamesAt(url) ==
    CASE url = UrlA -> {"rabbit@a"}
      [] url = UrlB -> {"rabbit@b"}
      [] url = UrlC -> {"rabbit@b"}

\* One target field of each group, where the gap responses have their gap.
GapFields ==
    { <<"object_totals", "channels">>, <<"queue_totals", "messages">>,
      <<"message_stats", "publish">> }

\* Overview answers with a gap, as the broker behind UrlA gives them.
GapDocs(l) ==
    {WithKey(FullDoc(l, 1), gk[1], gk[2], Absent) : gk \in GapFields}
        \cup {WithKey(FullDoc(l, 1), gk[1], gk[2], Str("n/a")) : gk \in GapFields}
        \cup {WithGroup(FullDoc(l, 1), g, NoGroup) : g \in Groups}
        \cup {WithGroup(FullDoc(l, 1), g, ScalarGroup) : g \in Groups}
        \cup {WithKey(FullDoc(l, 1), "object_totals", "details", Other),
              WithNode(FullDoc(l, 1), Absent), WithNode(FullDoc(l, 1), Other)}

Urls == {UrlA, UrlB, UrlC}

\* The JSON objects GET <url>/api/overview may return.
OverviewDocs(url) ==
    {FullDoc(l, v) : l \in NodeNamesAt(url), v \in 1..MaxVal}
        \cup {WithGroup(FullDoc(l, 1), "message_stats", NoGroup) : l \in NodeNamesAt(url)}
        \cup (IF url = UrlA THEN GapDocs("rabbit@a") ELSE {})

\* Every outcome of sendApiRequest(url, "/api/overview").
OverviewBodies ==
    [url \in Urls |-> {OvError, OvGarbage} \cup {OvJson(d) : d \in OverviewDocs(url)}]

\* The well-formed elements GET <url>/api/queues may list.
QueueElems(url) == {Elem(Str(l), Num(m)) : l \in NodeNamesAt(url), m \in 1..MaxVal}

\* Elements with a gap: not an object, no messages, messages not a number,
\* no node, node not a string.
GapElems ==
    {NilElem, Elem(Str("rabbit@a"), Absent), Elem(Str("rabbit@a"), Other),
     Elem(Absent, Num(1)), Elem(Other, Num(1))}

\* The arrays GET <url>/api/queues may return: up to MaxQueues well-formed
\* elements, every queue but the last holding one message, and, behind UrlA,
\* arrays with a gap element first or second and the array of a cluster
\* whose second queue lives on another node.
QueueArrays(url) ==
    UNION { {a \in [1..n -> QueueElems(url)] :
                \A k \in 1..(n - 1) : a[k].messages.n = 1}
            : n \in 0..MaxQueues }
        \cup (IF url = UrlA
              THEN {<<e>> : e \in GapElems}
                       \cup {<<Elem(Str("rabbit@a"), Num(1)), e>> : e \in GapElems}
                       \cup {<<Elem(Str("rabbit@a"), Num(1)), Elem(Str("rabbit@b"), Num(2))>>}
              ELSE {})

\* Every outcome of sendApiRequest(url, "/api/queues").
QueueBodies ==
    [url \in Urls |-> {QError, QGarbage} \cup {QJson(a) : a \in QueueArrays(url)}]

\* The node labels that can reach the metric vectors.
Labels == NodeNames \cup {""}

\* ------------------------------------------------------------------- state
VARIABLES
    mainPc,     \* where main() stands
    mainDt,     \* the duration of main's current time.Sleep, in seconds
    config,     \* main's config, filled by loadConfig
    loops,      \* the goroutines started by updateNodesStats, in launch order
    registry,   \* the children of the metric vectors: <<metric, label>> -> value
    owner,      \* history: per label, the goroutine that first wrote under it
    observed    \* history: the Set calls made so far, in RegistrySpec only

vars == <<mainPc, mainDt, config, loops, registry, owner, observed>>

Min(a, b) == IF a < b THEN a ELSE b

\* Goroutine i writes under label l: it owns the label if no goroutine wrote
\* under it before.
Owned(o, l, i) == IF o[l] = 0 THEN [o EXCEPT ![l] = i] ELSE o

\* A goroutine running runRequestLoop(node), about to call requestData.
NewLoop(node) ==
    [node |-> node, pc |-> "getOverview", dt |-> 0, fails |-> 0, panic |-> "none"]

Init ==
    /\ mainPc = "loadConfig"
    /\ mainDt = 0
    /\ config = ZeroConfig
    /\ loops = <<>>
    /\ registry = [key \in Metrics \X Labels |-> NoValue]
    /\ owner = [l \in Labels |-> 0]
    /\ observed = <<>>

\* ------------------------------------------------- loadConfig and its loop
\* The bug of a failed load that lets runLoadConfigLoop break.
LoadConfigFailsAndPasses ==
    /\ mainPc = "loadConfig"
    /\ mainPc' = "updateNodesStats"
    /\ mainDt' = LoadCooldown
    /\ UNCHANGED <<config, loops, registry, owner, observed>>

\* ReadFile or Unmarshal fails: panic, recover, sleep 10 s, return false.
LoadConfigFails ==
    /\ mainPc = "loadConfig"
    /\ mainPc' = "loadCooldown"
    /\ mainDt' = LoadCooldown
    /\ UNCHANGED <<config, loops, registry, owner, observed>>

\* The sleep of the recover ends; runLoadConfigLoop calls loadConfig again.
LoadConfigRetry ==
    /\ mainPc = "loadCooldown"
    /\ mainPc' = "loadConfig"
    /\ mainDt' = 0
    /\ UNCHANGED <<config, loops, registry, owner, observed>>

\* The file parses: loadConfig returns true and the loop breaks.
LoadConfigOk(c) ==
    /\ mainPc = "loadConfig"
    /\ config' = c
    /\ mainPc' = "updateNodesStats"
    /\ UNCHANGED <<mainDt, loops, registry, owner, observed>>

\* -------------------------------------------------------- updateNodesStats
\* The bug of giving every loop the global interval.
EffectiveNodeGlobalOnly(node, cfg) == [node EXCEPT !.Interval = cfg.Interval]

\* node.Interval = config.Interval when the node has none of its own.
EffectiveNode(node, cfg) ==
    IF Len(node.Interval) = 0 THEN [node EXCEPT !.Interval = cfg.Interval] ELSE node

\* range *config.Nodes with a nil pointer: the unrecovered panic ends main.
NilDereference ==
    /\ mainPc = "updateNodesStats"
    /\ config.Nodes.nil
    /\ mainPc' = "crashed"
    /\ UNCHANGED <<mainDt, config, loops, registry, owner, observed>>

\* One iteration of the range loop: go runRequestLoop(node).
Launch ==
    /\ mainPc = "updateNodesStats"
    /\ ~config.Nodes.nil
    /\ Len(loops) < Len(config.Nodes.list)
    /\ loops' = Append(loops, NewLoop(EffectiveNode(config.Nodes.list[Len(loops) + 1], config)))
    /\ UNCHANGED <<mainPc, mainDt, config, registry, owner, observed>>

\* The range loop is over: main registers the handlers and serves.
Serve ==
    /\ mainPc = "updateNodesStats"
    /\ ~config.Nodes.nil
    /\ Len(loops) = Len(config.Nodes.list)
    /\ mainPc' = "serving"
    /\ UNCHANGED <<mainDt, config, loops, registry, owner, observed>>

\* ------------------------------------------------------------- requestData
\* The bug of a cooldown that grows with the consecutive failures.
RecoveredWithBackoff(l, r) ==
    [l EXCEPT !.pc = "sleep", !.dt = FailureCooldown * (l.fails + 1), !.panic = r,
              !.fails = Min(@ + 1, MaxFails)]

\* The deferred recover() of requestData: the panic value r is swallowed and
\* the goroutine sleeps the failure cooldown.
Recovered(l, r) ==
    [l EXCEPT !.pc = "sleep", !.dt = FailureCooldown, !.panic = r,
              !.fails = Min(@ + 1, MaxFails)]

\* Lines 319-324: both calls returned; sleep the node's interval.
CycleDone(l) ==
    [l EXCEPT !.pc = "sleep", !.dt = SleepInterval(l.node.Interval), !.fails = 0]

\* The value getOverview panics with on this exchange, "none" when it returns:
\* the error of client.Do, or the TypeAssertionError of the first assertion
\* that fails, which names the asserted type: map[string]interface{} ("group",
\* an assertion only getOverview makes) or float64 ("conversion").
OverviewPanic(body) ==
    IF body.kind = "error" THEN "error"
    ELSE IF ~IsMap(decodeObj(body).object_totals) THEN "group"
    ELSE IF \E k \in AllKeys : decodeObj(body).object_totals.f[k].t \notin {"absent", "num"}
         THEN "conversion"
    ELSE IF OverviewPanics(decodeObj(body)) THEN "group"
    ELSE "none"

\* The value getNumberOfMessages panics with, "none" when it returns.
NumberOfMessagesPanic(body) ==
    IF body.kind = "error" THEN "error" ELSE QueuesPanic(decodeObjArray(body))

\* The bug of a failure path that drops the stored values (vec.Reset()).
PanicResetsVectors(i, r) ==
    /\ loops' = [loops EXCEPT ![i] = Recovered(loops[i], r)]
    /\ registry' = [key \in DOMAIN registry |-> NoValue]
    /\ UNCHANGED owner

\* A panic with value r unwinds goroutine i up to requestData, whose deferred
\* function recovers it: nothing outside the goroutine changes.
Panic(i, r) ==
    /\ loops' = [loops EXCEPT ![i] = Recovered(loops[i], r)]
    /\ UNCHANGED <<registry, owner>>

\* The bug of setting the object_totals metrics before the other two groups
\* are extracted: a later panic leaves five of the fifteen values applied.
GetOverviewSetsEarly(i, body) ==
    /\ loops[i].pc = "getOverview"
    /\ IF OverviewPanic(body) # "none"
       THEN /\ loops' = [loops EXCEPT ![i] = Recovered(loops[i], OverviewPanic(body))]
            /\ registry' =
                   IF body.kind # "error" /\ IsMap(decodeObj(body).object_totals)
                          /\ OverviewPanic(body) = "group"
                   THEN OverviewSetCalls(registry, decodeObj(body), Len(ObjectTotalsFields))
                   ELSE registry
            /\ owner' = owner
       ELSE /\ loops' = [loops EXCEPT ![i].pc = "getNumberOfMessages"]
            /\ registry' = MapOverview(registry, decodeObj(body))
            /\ owner' = Owned(owner, OverviewNodeName(decodeObj(body)), i)
    /\ UNCHANGED <<mainPc, mainDt, config, observed>>

\* getOverview(node.Url, ...) in goroutine i, the exchange yielding body.
GetOverview(i, body) ==
    /\ loops[i].pc = "getOverview"
    /\ IF OverviewPanic(body) # "none"
       THEN Panic(i, OverviewPanic(body))
       ELSE /\ loops' = [loops EXCEPT ![i].pc = "getNumberOfMessages"]
            /\ registry' = MapOverview(registry, decodeObj(body))
            /\ owner' = Owned(owner, OverviewNodeName(decodeObj(body)), i)
    /\ UNCHANGED <<mainPc, mainDt, config, observed>>

\* The bug of taking an empty array for "no messages": total 0 under the
\* empty label, and the cycle goes on.
GetNumberOfMessagesEmptyIsZero(i, body) ==
    /\ loops[i].pc = "getNumberOfMessages"
    /\ IF body.kind # "error" /\ decodeObjArray(body) = <<>>
       THEN /\ loops' = [loops EXCEPT ![i] = CycleDone(loops[i])]
            /\ registry' = Set(registry, "messagesTotal", "", 0)
            /\ owner' = Owned(owner, "", i)
       ELSE IF NumberOfMessagesPanic(body) # "none"
       THEN Panic(i, NumberOfMessagesPanic(body))
       ELSE /\ loops' = [loops EXCEPT ![i] = CycleDone(loops[i])]
            /\ registry' = MapQueues(registry, decodeObjArray(body))
            /\ owner' = Owned(owner, decodeObjArray(body)[1].node.s, i)
    /\ UNCHANGED <<mainPc, mainDt, config, observed>>

\* getNumberOfMessages(node.Url, ...) in goroutine i and, when it returns,
\* the rest of requestData up to time.Sleep(dt).
GetNumberOfMessages(i, body) ==
    /\ loops[i].pc = "getNumberOfMessages"
    /\ IF NumberOfMessagesPanic(body) # "none"
       THEN Panic(i, NumberOfMessagesPanic(body))
       ELSE /\ loops' = [loops EXCEPT ![i] = CycleDone(loops[i])]
            /\ registry' = MapQueues(registry, decodeObjArray(body))
            /\ owner' = Owned(owner, decodeObjArray(body)[1].node.s, i)
    /\ UNCHANGED <<mainPc, mainDt, config, observed>>

\* The bug of a loop that ends with the first recovered panic.
NextCycleUnlessFailed(i) ==
    /\ loops[i].pc = "sleep"
    /\ loops[i].panic = "none"
    /\ loops' = [loops EXCEPT ![i] = [NewLoop(loops[i].node) EXCEPT !.fails = loops[i].fails]]
    /\ UNCHANGED <<mainPc, mainDt, config, registry, owner, observed>>

\* time.Sleep returns, requestData returns, runRequestLoop calls it again.
NextCycle(i) ==
    /\ loops[i].pc = "sleep"
    /\ loops' = [loops EXCEPT ![i] = [NewLoop(loops[i].node) EXCEPT !.fails = loops[i].fails]]
    /\ UNCHANGED <<mainPc, mainDt, config, registry, owner, observed>>

\* Every step goroutine i can take.
LoopStep(i) ==
    \/ \E body \in OverviewBodies[loops[i].node.Url] : GetOverview(i, body)
    \/ \E body \in QueueBodies[loops[i].node.Url] : GetNumberOfMessages(i, body)
    \/ NextCycle(i)

\* ----------------------------------------------------------- specification
Next ==
    \/ LoadConfigFails
    \/ LoadConfigRetry
    \/ \E c \in ConfigFiles : LoadConfigOk(c)
    \/ NilDereference
    \/ Launch
    \/ Serve
    \/ \E i \in DOMAIN loops : \E body \in OverviewBodies[loops[i].node.Url] : GetOverview(i, body)
    \/ \E i \in DOMAIN loops : \E body \in QueueBodies[loops[i].node.Url] : GetNumberOfMessages(i, body)
    \/ \E i \in DOMAIN loops : NextCycle(i)

Spec == Init /\ [][Next]_vars

\* The goroutines any configuration can launch, by launch order.
LoopIds == UNION {DOMAIN c.Nodes.list : c \in ConfigFiles}

\* The program under a fair scheduler, with every HTTP exchange returning (a
\* response or an error) and every time.Sleep ending: a launched goroutine
\* that can take a step eventually takes one.
FairSpec ==
    Spec /\ \A i \in LoopIds : WF_vars(i \in DOMAIN loops /\ LoopStep(i))

\* ---------------------------------------------- the vectors on their own
\* The Set calls alone, on the vectors as init() leaves them: any sequence
\* of up to MaxObserved observations of a gauge and a counter vector.
MaxObserved == 3

ObservedMetrics == {"channelsTotal", "messagesCounter"}
ObservedValues == {5, 9}

\* One call vec.WithLabelValues(l).Set(v), as lines 251-265 and 277 make it.
Observe(m, l, v) ==
    /\ Len(observed) < MaxObserved
    /\ registry' = Set(registry, m, l, v)
    /\ observed' = Append(observed, <<m, l, v>>)
    /\ UNCHANGED <<mainPc, mainDt, config, loops, owner>>

RegistryNext ==
    \E m \in ObservedMetrics, l \in NodeNames, v \in ObservedValues : Observe(m, l, v)

RegistrySpec == Init /\ [][RegistryNext]_vars

\* ------------------------------------------------------------------ claims
\* Goroutine x takes a step that ends a cycle in the recover of requestData.
FailureStep(x) ==
    /\ x \in DOMAIN loops
    /\ loops[x].pc # "sleep"
    /\ loops'[x].pc = "sleep"
    /\ loops'[x].panic # "none"

\* The value the k-th Set call of getOverview must store for document d: the
\* number the document carries for the field, zero when it carries none.
FieldOf(d, k) == d[OverviewSets[k][2]].f[OverviewSets[k][3]]
Carried(d, k) == IF FieldOf(d, k).t = "num" THEN FieldOf(d, k).n ELSE 0

\* C1 (isolation).  A failure of loop x in fetch, decode or mapping changes no
\* child of any metric vector and no other loop's state; every launched loop
\* always has a step it can take, whatever the other loops did; and a
\* successful overview poll of loop y stores, under the node name of y's
\* response, the values that response carries.
C1_Isolation ==
    /\ [](\A y \in DOMAIN loops : ENABLED LoopStep(y))
    /\ [][ /\ \A x \in DOMAIN loops :
                FailureStep(x) =>
                    /\ registry' = registry
                    /\ \A y \in DOMAIN loops \ {x} : loops'[y] = loops[y]
           /\ \A y \in DOMAIN loops :
                \A l \in NodeNamesAt(loops[y].node.Url), v \in 1..MaxVal :
                    (loops'[y].pc = "getNumberOfMessages" /\ GetOverview(y, OvJson(FullDoc(l, v)))) =>
                        \A k \in DOMAIN OverviewSets :
                            registry'[<<OverviewSets[k][1], l>>] = Carried(FullDoc(l, v), k)
         ]_vars

\* Loop 1 has failed MaxFails cycles in a row and sleeps its cooldown while
\* loop 2 has completed a cycle and its values are in the vectors.
C1_Witness ==
    /\ Len(loops) = 2
    /\ loops[1].pc = "sleep" /\ loops[1].panic # "none" /\ loops[1].fails = MaxFails
    /\ loops[2].pc = "sleep" /\ loops[2].panic = "none" /\ loops[2].fails = 0
    /\ registry[<<"messagesTotal", "rabbit@b">>] # NoValue
    /\ registry[<<"channelsTotal", "rabbit@b">>] # NoValue

\* An exchange that is an error by itself: the transport failed, the body is
\* not JSON of the expected type, or the JSON has the wrong shape (a group
\* that is not an object; an element that is not an object).
OverviewError(body) ==
    \/ body.kind \in {"error", "garbage"}
    \/ \E g \in Groups : body.val[g].t # "obj"

QueuesError(body) ==
    \/ body.kind \in {"error", "garbage"}
    \/ \E k \in DOMAIN body.val : body.val[k].t # "obj"

\* C2 (failure cooldown).  Every erroneous exchange, in getOverview or in
\* getNumberOfMessages, ends the cycle at once in a sleep of 10 seconds with
\* the vectors untouched; every failed cycle sleeps 10 seconds, whatever the
\* count of failures before it; a sleeping loop's next step starts a new
\* cycle; no loop ever leaves the set of running loops and main is not taken
\* down by a loop's failure.
C2_FailureCooldown ==
    /\ [](\A i \in DOMAIN loops :
            (loops[i].pc = "sleep" /\ loops[i].panic # "none") => loops[i].dt = 10)
    /\ [][\A i \in DOMAIN loops :
            /\ \A body \in OverviewBodies[loops[i].node.Url] :
                 (loops[i].pc = "getOverview" /\ OverviewError(body) /\ GetOverview(i, body))
                     => /\ loops'[i].pc = "sleep" /\ loops'[i].panic # "none"
                        /\ loops'[i].dt = 10
                        /\ registry' = registry
            /\ \A body \in QueueBodies[loops[i].node.Url] :
                 (loops[i].pc = "getNumberOfMessages" /\ QueuesError(body)
                      /\ GetNumberOfMessages(i, body))
                     => /\ loops'[i].pc = "sleep" /\ loops'[i].panic # "none"
                        /\ loops'[i].dt = 10
                        /\ registry' = registry
            /\ FailureStep(i) => (loops'[i].dt = 10 /\ mainPc' = mainPc)
            /\ (loops[i].pc = "sleep" /\ loops'[i] # loops[i]) => loops'[i].pc = "getOverview"
            /\ i \in DOMAIN loops'
         ]_vars

\* A loop sleeps the cooldown of 10 seconds after MaxFails failed cycles in a
\* row, the last one a failed type assertion.
C2_Witness ==
    \E i \in DOMAIN loops :
        /\ loops[i].pc = "sleep" /\ loops[i].panic = "conversion"
        /\ loops[i].fails = MaxFails /\ loops[i].dt = 10

\* C3 (missing-field frame), as claimed.  When an overview document lacks a
\* target field, or carries a non-number for it, inside a group that is an
\* object, the mapping pass leaves the value stored for that metric and the
\* document's node label unchanged.
C3_MissingFieldKeepsValue ==
    [][\A i \in DOMAIN loops : \A body \in OverviewBodies[loops[i].node.Url] :
        \A k \in DOMAIN OverviewSets :
            ( /\ loops[i].pc = "getOverview"
              /\ body.kind = "json"
              /\ IsMap(body.val[OverviewSets[k][2]])
              /\ FieldOf(body.val, k).t # "num"
              /\ registry[<<OverviewSets[k][1], OverviewNodeName(body.val)>>] # NoValue
              /\ GetOverview(i, body) )
            => registry'[<<OverviewSets[k][1], OverviewNodeName(body.val)>>]
                   = registry[<<OverviewSets[k][1], OverviewNodeName(body.val)>>]
      ]_vars

\* C4 (field gaps are never fatal), as claimed.  For every overview response
\* that is a JSON object, whatever field or group is missing or not a number,
\* getOverview returns: the cycle goes on to getNumberOfMessages and the
\* numbers the document carries are stored.
C4_GapsNeverFatal ==
    [][\A i \in DOMAIN loops : \A body \in OverviewBodies[loops[i].node.Url] :
        (loops[i].pc = "getOverview" /\ body.kind = "json" /\ GetOverview(i, body))
            => /\ loops'[i].pc = "getNumberOfMessages"
               /\ \A k \in DOMAIN OverviewSets :
                    FieldOf(body.val, k).t = "num" =>
                        registry'[<<OverviewSets[k][1], OverviewNodeName(body.val)>>]
                            = FieldOf(body.val, k).n
      ]_vars

\* C5 (empty queues array).  When the queues response decodes to an empty
\* array, getNumberOfMessages panics with the index error, which requestData
\* recovers: no child of any vector changes (no messages_total for any label),
\* main and the other loops are untouched, the loop sleeps, and a sleeping
\* loop can always start its next cycle.
C5_EmptyQueuesContained ==
    /\ [](\A i \in DOMAIN loops : loops[i].pc = "sleep" => ENABLED NextCycle(i))
    /\ [][\A i \in DOMAIN loops :
            (loops[i].pc = "getNumberOfMessages" /\ GetNumberOfMessages(i, QJson(<<>>)))
                => /\ registry' = registry
                   /\ loops'[i].pc = "sleep" /\ loops'[i].panic = "index"
                   /\ \A j \in DOMAIN loops \ {i} : loops'[j] = loops[j]
                   /\ mainPc' = mainPc
         ]_vars

\* A loop sleeps after the index panic; its overview values of the cycle are
\* stored and no messages_total child exists under any label.
C5_Witness ==
    \E i \in DOMAIN loops :
        /\ loops[i].pc = "sleep" /\ loops[i].panic = "index"
        /\ \A l \in Labels : registry[<<"messagesTotal", l>>] = NoValue
        /\ \E l \in Labels : registry[<<"channelsTotal", l>>] # NoValue

\* The positions of the observations of (m, l) in a history.
ObservationsOf(h, m, l) == {n \in DOMAIN h : h[n][1] = m /\ h[n][2] = l}

\* C6 (overwrite semantics).  After any sequence of Set calls, the child of
\* every (metric, label), gauge or counter, holds the value of the latest
\* call for it (and does not exist when there was none): never a sum.
C6_Overwrite ==
    \A m \in Metrics, l \in Labels :
        LET at == ObservationsOf(observed, m, l)
        IN  IF at = {} THEN registry[<<m, l>>] = NoValue
            ELSE registry[<<m, l>>] = observed[CHOOSE n \in at : \A q \in at : q <= n][3]

\* The counter vector was set to 5 and then to 9 under one label and holds 9.
C6_Witness ==
    /\ Len(observed) >= 2
    /\ observed[1] = <<"messagesCounter", "rabbit@a", 5>>
    /\ observed[2] = <<"messagesCounter", "rabbit@a", 9>>
    /\ registry[<<"messagesCounter", "rabbit@a">>] = 9

\* C7 (written metrics are exposed), as claimed.  Every child a poll loop has
\* written belongs to a vector that is registered for /metrics.
C7_WrittenIsExposed ==
    \A key \in DOMAIN registry : registry[key] # NoValue => key[1] \in Registered

\* C8 (key ownership), as claimed.  Every write under a label comes from the
\* one loop that owns the label: no loop writes a (metric, label) pair that
\* another loop has written.
C8_SingleWriter ==
    [][\A i \in DOMAIN loops :
        /\ \A body \in OverviewBodies[loops[i].node.Url] :
             (loops[i].pc = "getOverview" /\ loops'[i].pc = "getNumberOfMessages"
                  /\ GetOverview(i, body))
                 => owner[OverviewNodeName(body.val)] \in {0, i}
        /\ \A body \in QueueBodies[loops[i].node.Url] :
             (loops[i].pc = "getNumberOfMessages" /\ loops'[i].panic = "none"
                  /\ GetNumberOfMessages(i, body))
                 => owner[body.val[1].node.s] \in {0, i}
      ]_vars

LoadStates == {"loadConfig", "loadCooldown"}

\* C9 (startup gate).  While main is loading there is no loop and no vector
\* child; a failed load sleeps 10 seconds and loads again, without leaving
\* the process; past the gate the configuration is one the file held, and
\* main never loads again.
C9_StartupGate ==
    /\ [](mainPc \in LoadStates =>
            (loops = <<>> /\ \A key \in DOMAIN registry : registry[key] = NoValue))
    /\ [](mainPc \notin LoadStates => config \in ConfigFiles)
    /\ [](mainPc = "loadCooldown" => mainDt = 10)
    /\ [][ /\ mainPc = "loadConfig" =>
                mainPc' \in {"loadConfig", "loadCooldown", "updateNodesStats"}
           /\ mainPc = "loadCooldown" => mainPc' \in LoadStates
           /\ mainPc \notin LoadStates => (mainPc' \notin LoadStates /\ config' = config)
         ]_vars

\* A load has failed: main sleeps its 10 seconds with no loop launched.
C9_Witness == mainPc = "loadCooldown" /\ mainDt = 10 /\ loops = <<>>

\* The sleep each configured node must get after a successful cycle: "1m" is
\* 60 s, the global "5s" is 5 s, and "abc" (global, for a node with no
\* interval) and "90" do not parse, which gives the default of 30 s.
ExpectedSleep(name) ==
    CASE name = "first" -> 60 [] name = "second" -> 5 [] name = "solo" -> 30
      [] name = "plain" -> 30

\* C10 (interval fallback).  A loop that sleeps after a cycle without panic
\* sleeps the duration its interval string denotes, 30 seconds when the
\* string does not parse; that cycle counts as a success (no failure count,
\* no cooldown) and its last step stores messages_total and changes no
\* other child.
C10_IntervalFallback ==
    /\ [](\A i \in DOMAIN loops :
            (loops[i].pc = "sleep" /\ loops[i].panic = "none")
                => (loops[i].dt = ExpectedSleep(loops[i].node.Name) /\ loops[i].fails = 0))
    /\ [][\A i \in DOMAIN loops :
            (loops[i].pc = "getNumberOfMessages" /\ loops'[i].pc = "sleep"
                 /\ loops'[i].panic = "none")
                => /\ \A key \in DOMAIN registry :
                        key[1] # "messagesTotal" => registry'[key] = registry[key]
                   /\ \E l \in Labels : registry'[<<"messagesTotal", l>>] > 0
         ]_vars

\* The node whose interval "90" does not parse sleeps the default 30 seconds
\* after a successful cycle whose values are stored.
C10_Witness ==
    \E i \in DOMAIN loops :
        /\ loops[i].node.Name = "plain" /\ ~ParseDuration(loops[i].node.Interval).ok
        /\ loops[i].pc = "sleep" /\ loops[i].panic = "none" /\ loops[i].dt = 30
        /\ registry[<<"messagesTotal", "rabbit@b">>] > 0
        /\ registry[<<"channelsTotal", "rabbit@b">>] > 0

\* C11 (supervisor dispatch).  The loops launched so far are, in order, the
\* configured nodes, one loop per node and never more loops than nodes; each
\* loop has its node's name and URL and, for interval, the node's own
\* req_interval when it is not empty and the global one otherwise; when main
\* serves, every node has its loop; and updateNodesStats can always take its
\* next step (launch the next loop, or return), whatever the loops are doing.
C11_Dispatch ==
    /\ Len(loops) <= Len(config.Nodes.list)
    /\ \A i \in DOMAIN loops :
        /\ loops[i].node.Name = config.Nodes.list[i].Name
        /\ loops[i].node.Url = config.Nodes.list[i].Url
        /\ config.Nodes.list[i].Interval # <<>>
               => loops[i].node.Interval = config.Nodes.list[i].Interval
        /\ config.Nodes.list[i].Interval = <<>>
               => loops[i].node.Interval = config.Interval
    /\ mainPc = "serving" => Len(loops) = Len(config.Nodes.list)
    /\ (mainPc = "updateNodesStats" /\ ~config.Nodes.nil) =>
          IF Len(loops) < Len(config.Nodes.list) THEN ENABLED Launch ELSE ENABLED Serve

\* updateNodesStats has returned with two loops launched, neither of which has
\* taken a step: the first keeps its own "1m", the second got the global "5s".
C11_Witness ==
    /\ mainPc = "serving" /\ Len(loops) = 2
    /\ loops[1].node.Name = "first" /\ loops[1].node.Interval = <<"1", "m">>
    /\ loops[2].node.Name = "second" /\ loops[2].node.Interval = <<"5", "s">>
    /\ loops[1].pc = "getOverview" /\ loops[2].pc = "getOverview"
    /\ \A key \in DOMAIN registry : registry[key] = NoValue

\* A queues array as the broker documents it: not empty, every element an
\* object with a string node and a numeric messages count.
QueuesArray(body) ==
    /\ body.kind = "json"
    /\ Len(body.val) > 0
    /\ \A k \in DOMAIN body.val :
        body.val[k].t = "obj" /\ body.val[k].node.t = "str" /\ body.val[k].messages.t = "num"

\* The sum of the messages counts of the first n elements of array a.
RECURSIVE SumOfMessages(_, _)
SumOfMessages(a, n) == IF n = 0 THEN 0 ELSE SumOfMessages(a, n - 1) + a[n].messages.n

\* C12 (queue aggregation).  For every non-empty queues array of such
\* elements, getNumberOfMessages writes exactly one point: messages_total, under the
\* node of the first element, with the sum of the messages of all elements
\* (whatever node the other elements name); no other child changes.
C12_QueueAggregation ==
    [][\A i \in DOMAIN loops :
        (loops[i].pc = "getNumberOfMessages" /\ loops'[i] # loops[i]) =>
            \A body \in QueueBodies[loops[i].node.Url] :
                (QueuesArray(body)
                     /\ registry' = MapQueues(registry, decodeObjArray(body))
                     /\ GetNumberOfMessages(i, body)) =>
                    /\ loops'[i].panic = "none"
                    /\ registry' =
                           [registry EXCEPT ![<<"messagesTotal", body.val[1].node.s>>] =
                                                SumOfMessages(body.val, Len(body.val))]
      ]_vars

\* The loop polling rabbit@a has stored a total of 3 (queues of 1 and 2
\* messages, the second possibly on rabbit@b) under rabbit@a, and nothing
\* under rabbit@b.
C12_Witness ==
    /\ Len(loops) = 1 /\ loops[1].node.Name = "solo"
    /\ loops[1].pc = "sleep" /\ loops[1].panic = "none"
    /\ registry[<<"messagesTotal", "rabbit@a">>] = 3
    /\ registry[<<"messagesTotal", "rabbit@b">>] = NoValue

\* The documented points of an overview pass: <<metric name, group, field>>.
DocumentedPoints ==
    { <<"channels_total", "object_totals", "channels">>,
      <<"connections_total", "object_totals", "connections">>,
      <<"consumers_total", "object_totals", "consumers">>,
      <<"queues_total", "object_totals", "queues">>,
      <<"exchanges_total", "object_totals", "exchanges">>,
      <<"messages", "queue_totals", "messages">>,
      <<"messages_ready", "queue_totals", "messages_ready">>,
      <<"messages_unacknowledged", "queue_totals", "messages_unacknowledged">>,
      <<"messages_published", "message_stats", "publish">>,
      <<"messages_acked", "message_stats", "ack">>,
      <<"messages_delivered", "message_stats", "deliver">>,
      <<"messages_confirmed", "message_stats", "confirm">>,
      <<"messages_redelivered", "message_stats", "redeliver">>,
      <<"messages_delivered_get", "message_stats", "deliver_get">>,
      <<"messages_delivered_no_ack", "message_stats", "deliver_no_ack">> }

\* A valid overview object with every target field a number: the node is a
\* string, the groups are objects and, as in the broker's answers,
\* object_totals holds nothing but numbers.
CompleteOverview(body) ==
    /\ body.kind = "json"
    /\ body.val.node.t = "str"
    /\ \A k \in AllKeys : body.val.object_totals.f[k].t \in {"absent", "num"}
    /\ \A d \in DocumentedPoints :
        body.val[d[2]].t = "obj" /\ body.val[d[2]].f[d[3]].t = "num"

\* The children a step creates or changes.
Written == {key \in DOMAIN registry : registry'[key] # registry[key]}

\* No child exists yet under label l.
FreshLabel(l) == \A m \in Metrics : registry[<<m, l>>] = NoValue

\* One mapping pass of a complete overview: every documented name holds the
\* value of its source field under the overview's node, nothing else
\* changes, and a pass under a fresh label creates exactly n children.
OverviewPass(n) ==
    \A i \in DOMAIN loops :
        (loops[i].pc = "getOverview" /\ loops'[i] # loops[i]) =>
            \A body \in OverviewBodies[loops[i].node.Url] :
                (CompleteOverview(body) /\ GetOverview(i, body)) =>
                    /\ \A d \in DocumentedPoints :
                        /\ \E m \in OverviewMetrics : MetricName(m) = d[1]
                        /\ \A m \in Metrics :
                             MetricName(m) = d[1] =>
                                 registry'[<<m, body.val.node.s>>] = body.val[d[2]].f[d[3]].n
                    /\ \A key \in Written : key[2] = body.val.node.s /\ key[1] # "messagesTotal"
                    /\ FreshLabel(body.val.node.s) => Cardinality(Written) = n
                    /\ loops'[i].pc = "getNumberOfMessages"

\* C13 (overview mapping), as claimed.  A mapping pass of a valid overview
\* object with all target fields present produces exactly eleven points,
\* each under its documented name with the value of its source field and
\* labelled with the overview's node.
C13_ElevenPoints == [][OverviewPass(11)]_vars

\* C13, amended.  The pass produces exactly fifteen points, one for each of
\* the fifteen target fields (five of object_totals, three of queue_totals,
\* seven of message_stats), each under its documented name with the value of
\* its source field and labelled with the overview's node.
C13_FifteenPoints == [][OverviewPass(15)]_vars

\* The first pass of a loop has stored the fifteen values of rabbit@a's
\* overview; the queues have not been fetched yet.
C13_Witness ==
    /\ Len(loops) = 1 /\ loops[1].pc = "getNumberOfMessages" /\ loops[1].fails = 0
    /\ Cardinality({m \in Metrics : registry[<<m, "rabbit@a">>] # NoValue}) = 15
    /\ registry[<<"channelsTotal", "rabbit@a">>] = 201
    /\ registry[<<"messageStatsPublishCounter", "rabbit@a">>] = 212
    /\ registry[<<"messageStatsDeliverNoAckCounter", "rabbit@a">>] = 215
    /\ registry[<<"messagesTotal", "rabbit@a">>] = NoValue

\* C14 (counter monotonicity), as claimed.  The value stored for a counter
\* metric and a node label never decreases from one observation to the next.
C14_CountersNeverDecrease ==
    [][\A key \in DOMAIN registry :
        (key[1] \in CounterMetrics /\ registry[key] # NoValue)
            => registry'[key] >= registry[key]
      ]_vars

\* C15 (label source), as claimed.  Every child the loops have written is
\* labelled with the configured name of a launched node.
C15_LabelIsConfiguredName ==
    \A key \in DOMAIN registry :
        registry[key] # NoValue => \E i \in DOMAIN loops : loops[i].node.Name = key[2]

\* Goroutine i takes the step that ends a cycle with both fetches done.
BothFetched(i) ==
    /\ loops[i].pc = "getNumberOfMessages"
    /\ loops'[i].pc = "sleep"
    /\ loops'[i].panic = "none"

\* C16 (apply after both fetches), as claimed.  No step of a loop writes to
\* the vectors except the one that completes the second fetch of the cycle:
\* the overview step writes nothing, and a cycle whose queues fetch fails
\* has written nothing.
C16_ApplyAfterBothFetches ==
    [][\A i \in DOMAIN loops :
        (loops'[i] # loops[i] /\ ~BothFetched(i)) => registry' = registry
      ]_vars

\* C17 (stale values persist on overview failure).  A step of a loop inside
\* getOverview either fails, and then no child of any vector under any label
\* changes, or returns, and then all fifteen overview children of one label
\* are set and no other child changes: never a part of them.
C17_OverviewAllOrNothing ==
    [][\A i \in DOMAIN loops :
        (loops[i].pc = "getOverview" /\ loops'[i] # loops[i]) =>
            \/ /\ loops'[i].pc = "sleep" /\ loops'[i].panic # "none"
               /\ \A key \in DOMAIN registry : registry'[key] = registry[key]
            \/ /\ loops'[i].pc = "getNumberOfMessages"
               /\ \E l \in Labels :
                    /\ \A m \in OverviewMetrics : registry'[<<m, l>>] >= 0
                    /\ \A key \in DOMAIN registry :
                         (key[2] # l \/ key[1] \notin OverviewMetrics)
                             => registry'[key] = registry[key]
      ]_vars

\* A loop sleeps after getOverview failed on a group that is no object, and
\* the values of the last successful poll of rabbit@b are still stored.
C17_Witness ==
    \E i \in DOMAIN loops :
        /\ loops[i].pc = "sleep" /\ loops[i].panic = "group" /\ loops[i].fails = 1
        /\ registry[<<"channelsTotal", "rabbit@b">>] = 201
        /\ registry[<<"messageStatsAckCounter", "rabbit@b">>] = 213
        /\ registry[<<"messagesTotal", "rabbit@b">>] = 3

\* C18 (no terminal state).  Under the fair scheduler, every loop that is
\* ever launched leaves its sleep and starts the fetch of a new cycle
\* infinitely often, after a success or a failure: from every state of the
\* loop a fetch is eventually started again.  No loop ever leaves the three
\* states of its cycle and the launched loops never become fewer.
C18_NoTerminalState ==
    /\ \A i \in LoopIds :
        []<>(i \notin DOMAIN loops) \/ []<><<i \in DOMAIN loops /\ NextCycle(i)>>_vars
    /\ [](\A i \in DOMAIN loops :
            loops[i].pc \in {"getOverview", "getNumberOfMessages", "sleep"})
    /\ [][DOMAIN loops \subseteq DOMAIN loops']_vars

\* Both loops of a two-node configuration are in a new cycle, the first after
\* MaxFails failed cycles in a row and the second after a successful one.
C18_Witness ==
    /\ Len(loops) = 2
    /\ loops[1].pc = "getOverview" /\ loops[1].fails = MaxFails
    /\ loops[2].pc = "getOverview" /\ loops[2].fails = 0
    /\ registry[<<"messagesTotal", "rabbit@b">>] # NoValue

\* C19 (empty node set), as claimed.  For every configuration that passes
\* the startup gate, with its nodes list absent or empty as well,
\* updateNodesStats completes without a fault: main never crashes, and once
\* every configured node has its loop (none, when there are no nodes) main
\* can go on to serve.
C19_SupervisorNeverFaults ==
    /\ mainPc # "crashed"
    /\ (mainPc = "updateNodesStats" /\ Len(loops) = Len(config.Nodes.list)) => ENABLED Serve

====
